---- MODULE Spec2Model ----
(***************************************************************************)
(* Maternity-ward records API (src/api.py): the request handlers of the    *)
(* five entities Gestante, ProfissionalSaude, ConsultaPrenatal, Exame and  *)
(* Parto over the SQLite store, with the validation each handler performs  *)
(* before it commits and the constraints the store enforces on commit.     *)
(*                                                                         *)
(* Columns modelled per table: the primary key, every unique column, every *)
(* parent reference, one NOT NULL scalar of the parent tables (nome; the   *)
(* other NOT NULL scalars go through the same setattr loop), the nullable  *)
(* scalar of each dependent table and Gestante.data_registo.               *)
(***************************************************************************)
EXTENDS Integers, FiniteSets, Sequences, TLC

\* Number of rows a behaviour may insert, all tables together, when requests
\* come one at a time; the identifiers of a table are 1, 2, ... in the order
\* its rows were inserted.
MaxRows == 3

\* The same for behaviours with a racing request: the race over a Parto needs
\* the Gestante, the ProfissionalSaude and both Parto rows.
RaceRows == MaxRows + 1

Ids == 1..RaceRows

\* An attribute the PATCH body never mentioned (absent from model_fields_set),
\* and Python None / SQL NULL in a str column.
UNSET == "<unset>"
NULL == "<None>"
\* The same two for a uuid attribute.
NoId == 0
UnsetId == -1

VARIABLES db, nextId, req, resp, pending, inflight

vars == <<db, nextId, req, resp, pending, inflight>>

----------------------------------------------------------------------------
\* Input values of the requests.

BIs == {"bi1", "bi2"}
Emails == {"", "a@x"}
NomeCriado == "Ana"
NomeNovo == "Bia"
Textos == {NULL, "txt"}
\* Dates of the query string, as day numbers.
Datas == {1, 2}
\* The reading of the server's clock, and a time a caller writes in a body.
datetime_now == "now"
DataCaller == "2000-01-01"

----------------------------------------------------------------------------
\* Schema.

\* Columns declared nullable (Optional[...] = Field(default=None)).
Nullable ==
  [gestante |-> {}, profissionalsaude |-> {},
   consultaprenatal |-> {"observacoes"}, exame |-> {"resultado"},
   parto |-> {"complicacoes"}]

\* The schema with unique=True left off Gestante.bi.
Unique_semBi ==
  [gestante |-> {}, profissionalsaude |-> {"email"},
   consultaprenatal |-> {}, exame |-> {}, parto |-> {"id_gestante"}]

\* The schema with unique=True left off ProfissionalSaude.email.
Unique_semEmail ==
  [gestante |-> {"bi"}, profissionalsaude |-> {},
   consultaprenatal |-> {}, exame |-> {}, parto |-> {"id_gestante"}]

\* The schema with unique=True left off Parto.id_gestante.
Unique_semParto ==
  [gestante |-> {"bi"}, profissionalsaude |-> {"email"},
   consultaprenatal |-> {}, exame |-> {}, parto |-> {}]

\* Columns declared unique=True.
Unique ==
  [gestante |-> {"bi"}, profissionalsaude |-> {"email"},
   consultaprenatal |-> {}, exame |-> {}, parto |-> {"id_gestante"}]

\* Columns holding a uuid.
IdColumns == {"id_gestante", "id_profissional"}

Tables == DOMAIN Unique

IsNull(c, v) == IF c \in IdColumns THEN v = NoId ELSE v = NULL

\* NOT NULL constraints of one table.
NotNullOK(d, t) ==
  \A i \in DOMAIN d[t] : \A c \in DOMAIN d[t][i] :
     IsNull(c, d[t][i][c]) => c \in Nullable[t]

\* UNIQUE constraints of one table.
UniqueOK(d, t) ==
  \A c \in Unique[t] : \A i, j \in DOMAIN d[t] :
     d[t][i][c] = d[t][j][c] => i = j

\* What the store checks when a transaction commits.  Foreign keys are
\* declared but the engine is created without enabling their enforcement.
IntegrityOK(d) == \A t \in Tables : NotNullOK(d, t) /\ UniqueOK(d, t)

----------------------------------------------------------------------------
\* Session primitives.

Result(d, s) == [db |-> d, status |-> s]

\* session.get(Model, id) is not None
Exists(d, t, i) == i \in DOMAIN d[t]

\* select(Model).where(Model.c == v): the matching primary keys
SelectWhere(d, t, c, v) == {i \in DOMAIN d[t] : d[t][i][c] = v}

\* The identifier of the instance built from a POST body: the body's, or the
\* default_factory's fresh one.
IdOf(body, nid) == IF body.id = NoId THEN nid ELSE body.id

\* The columns of that instance; data_registo left out of the body is the
\* default_factory's datetime.now().
Row(body) ==
  [c \in DOMAIN body \ {"id"} |->
     IF c = "data_registo" /\ body[c] = UNSET THEN datetime_now ELSE body[c]]

\* session.add(obj); session.commit() for a new instance.
Insert(d, t, i, row, ok) ==
  LET d2 == [d EXCEPT ![t] = [k \in DOMAIN d[t] \cup {i} |->
                                 IF k = i THEN row ELSE d[t][k]]]
  IN IF i \notin DOMAIN d[t] /\ IntegrityOK(d2)
       THEN Result(d2, ok) ELSE Result(d, 500)

IsSet(c, v) == IF c \in IdColumns THEN v # UnsetId ELSE v # UNSET

\* dados.<c>: the supplied value, or the default None.
Attr(dados, c) ==
  IF IsSet(c, dados[c]) THEN dados[c]
  ELSE IF c \in IdColumns THEN NoId ELSE NULL

\* if <value>: None and the empty string are falsy.
Truthy(c, v) == IF c \in IdColumns THEN v # NoId ELSE v \notin {NULL, ""}

\* The loop over dados.model_dump(exclude_none=True): a None in the body is
\* left out of the mapping like an attribute the body never mentioned.
Merge_excludeNone(row, dados) ==
  [c \in DOMAIN row |->
     IF c \in DOMAIN dados /\ IsSet(c, dados[c]) /\ ~IsNull(c, dados[c])
       THEN dados[c] ELSE row[c]]

\* The loop over dados.model_dump() without exclude_unset=True: an attribute
\* the body left out is written as its default None.
Merge_semExcludeUnset(row, dados) ==
  [c \in DOMAIN row |-> IF c \in DOMAIN dados THEN Attr(dados, c) ELSE row[c]]

\* for key, value in dados.model_dump(exclude_unset=True).items():
\*     setattr(obj, key, value)
Merge(row, dados) ==
  [c \in DOMAIN row |->
     IF c \in DOMAIN dados /\ IsSet(c, dados[c]) THEN dados[c] ELSE row[c]]

\* session.add(obj); session.commit() for a loaded instance.
Update(d, t, i, row) ==
  LET d2 == [d EXCEPT ![t][i] = row]
  IN IF IntegrityOK(d2) THEN Result(d2, 200) ELSE Result(d, 500)

\* session.delete(obj); session.commit()
Delete(d, t, i) ==
  Result([d EXCEPT ![t] = [k \in DOMAIN d[t] \ {i} |-> d[t][k]]], 200)

----------------------------------------------------------------------------
\* Request handlers: the store and the status code each one ends with.

\* criar_gestante without the query for an existing bi.
criar_gestante_semConsulta(d, nid, gestante) ==
  Insert(d, "gestante", IdOf(gestante, nid), Row(gestante), 201)

\* POST /gestantes
criar_gestante(d, nid, gestante) ==
  IF SelectWhere(d, "gestante", "bi", gestante.bi) # {}
    THEN Result(d, 400)
    ELSE Insert(d, "gestante", IdOf(gestante, nid), Row(gestante), 201)

\* GET /gestantes/{gestante_id}
buscar_gestante(d, gestante_id) ==
  IF ~Exists(d, "gestante", gestante_id) THEN Result(d, 404)
  ELSE Result(d, 200)

\* PATCH /gestantes/{gestante_id}
atualizar_gestante(d, gestante_id, dados) ==
  IF ~Exists(d, "gestante", gestante_id) THEN Result(d, 404)
  ELSE Update(d, "gestante", gestante_id,
              Merge(d.gestante[gestante_id], dados))

\* deletar_gestante querying all three dependent tables.
deletar_gestante_todosDependentes(d, gestante_id) ==
  IF ~Exists(d, "gestante", gestante_id) THEN Result(d, 404)
  ELSE IF \E t \in {"consultaprenatal", "exame", "parto"} :
             SelectWhere(d, t, "id_gestante", gestante_id) # {}
    THEN Result(d, 400)
  ELSE Delete(d, "gestante", gestante_id)

\* DELETE /gestantes/{gestante_id}
deletar_gestante(d, gestante_id) ==
  IF ~Exists(d, "gestante", gestante_id) THEN Result(d, 404)
  ELSE IF SelectWhere(d, "consultaprenatal", "id_gestante", gestante_id) # {}
    THEN Result(d, 400)
  ELSE Delete(d, "gestante", gestante_id)

\* POST /profissionais
criar_profissional(d, nid, profissional) ==
  IF SelectWhere(d, "profissionalsaude", "email", profissional.email) # {}
    THEN Result(d, 400)
    ELSE Insert(d, "profissionalsaude", IdOf(profissional, nid),
                Row(profissional), 201)

\* GET /profissionais/{profissional_id}
buscar_profissional(d, profissional_id) ==
  IF ~Exists(d, "profissionalsaude", profissional_id) THEN Result(d, 404)
  ELSE Result(d, 200)

\* atualizar_profissional querying for the email even when the body repeats
\* the record's own.
atualizar_profissional_semProprio(d, profissional_id, dados) ==
  IF ~Exists(d, "profissionalsaude", profissional_id) THEN Result(d, 404)
  ELSE LET profissional == d.profissionalsaude[profissional_id]
           email == Attr(dados, "email")
       IN IF /\ Truthy("email", email)
             /\ SelectWhere(d, "profissionalsaude", "email", email) # {}
            THEN Result(d, 400)
            ELSE Update(d, "profissionalsaude", profissional_id,
                        Merge(profissional, dados))

\* PATCH /profissionais/{profissional_id}
atualizar_profissional(d, profissional_id, dados) ==
  IF ~Exists(d, "profissionalsaude", profissional_id) THEN Result(d, 404)
  ELSE LET profissional == d.profissionalsaude[profissional_id]
           email == Attr(dados, "email")
       IN IF /\ Truthy("email", email)
             /\ email # profissional.email
             /\ SelectWhere(d, "profissionalsaude", "email", email) # {}
            THEN Result(d, 400)
            ELSE Update(d, "profissionalsaude", profissional_id,
                        Merge(profissional, dados))

\* deletar_profissional without the query for partos.
deletar_profissional_semPartos(d, profissional_id) ==
  IF ~Exists(d, "profissionalsaude", profissional_id) THEN Result(d, 404)
  ELSE IF SelectWhere(d, "consultaprenatal", "id_profissional",
                      profissional_id) # {}
    THEN Result(d, 400)
  ELSE Delete(d, "profissionalsaude", profissional_id)

\* DELETE /profissionais/{profissional_id}
deletar_profissional(d, profissional_id) ==
  IF ~Exists(d, "profissionalsaude", profissional_id) THEN Result(d, 404)
  ELSE IF \/ SelectWhere(d, "consultaprenatal", "id_profissional",
                         profissional_id) # {}
          \/ SelectWhere(d, "parto", "id_profissional", profissional_id) # {}
    THEN Result(d, 400)
  ELSE Delete(d, "profissionalsaude", profissional_id)

\* criar_consulta without the lookup of the professional.
criar_consulta_semProfissional(d, nid, consulta) ==
  IF ~Exists(d, "gestante", consulta.id_gestante) THEN Result(d, 404)
  ELSE Insert(d, "consultaprenatal", IdOf(consulta, nid), Row(consulta), 201)

\* POST /consultas
criar_consulta(d, nid, consulta) ==
  IF ~Exists(d, "gestante", consulta.id_gestante) THEN Result(d, 404)
  ELSE IF ~Exists(d, "profissionalsaude", consulta.id_profissional)
    THEN Result(d, 404)
  ELSE Insert(d, "consultaprenatal", IdOf(consulta, nid), Row(consulta), 201)

\* GET /consultas/{consulta_id}
buscar_consulta(d, consulta_id) ==
  IF ~Exists(d, "consultaprenatal", consulta_id) THEN Result(d, 404)
  ELSE Result(d, 200)

\* atualizar_consulta committing the other supplied fields before it looks
\* the professional up.
atualizar_consulta_gravaAntes(d, consulta_id, dados) ==
  IF ~Exists(d, "consultaprenatal", consulta_id) THEN Result(d, 404)
  ELSE LET id_profissional == Attr(dados, "id_profissional")
           semRef == [dados EXCEPT !.id_profissional = UnsetId]
           antes == Update(d, "consultaprenatal", consulta_id,
                           Merge(d.consultaprenatal[consulta_id], semRef))
       IN IF /\ Truthy("id_profissional", id_profissional)
             /\ ~Exists(d, "profissionalsaude", id_profissional)
            THEN Result(antes.db, 404)
            ELSE Update(d, "consultaprenatal", consulta_id,
                        Merge(d.consultaprenatal[consulta_id], dados))

\* PATCH /consultas/{consulta_id}
atualizar_consulta(d, consulta_id, dados) ==
  IF ~Exists(d, "consultaprenatal", consulta_id) THEN Result(d, 404)
  ELSE LET id_profissional == Attr(dados, "id_profissional")
       IN IF /\ Truthy("id_profissional", id_profissional)
             /\ ~Exists(d, "profissionalsaude", id_profissional)
            THEN Result(d, 404)
            ELSE Update(d, "consultaprenatal", consulta_id,
                        Merge(d.consultaprenatal[consulta_id], dados))

\* GET /consultas/periodo: the status code; the records selected are not
\* part of the model.
consultas_por_periodo(d, data_inicio, data_fim) ==
  IF data_inicio > data_fim THEN Result(d, 400) ELSE Result(d, 200)

\* DELETE /consultas/{consulta_id}
deletar_consulta(d, consulta_id) ==
  IF ~Exists(d, "consultaprenatal", consulta_id) THEN Result(d, 404)
  ELSE Delete(d, "consultaprenatal", consulta_id)

\* POST /exames
criar_exame(d, nid, exame) ==
  IF ~Exists(d, "gestante", exame.id_gestante) THEN Result(d, 404)
  ELSE Insert(d, "exame", IdOf(exame, nid), Row(exame), 201)

\* GET /exames/{exame_id}
buscar_exame(d, exame_id) ==
  IF ~Exists(d, "exame", exame_id) THEN Result(d, 404)
  ELSE Result(d, 200)

\* PATCH /exames/{exame_id}
atualizar_exame(d, exame_id, dados) ==
  IF ~Exists(d, "exame", exame_id) THEN Result(d, 404)
  ELSE Update(d, "exame", exame_id, Merge(d.exame[exame_id], dados))

\* DELETE /exames/{exame_id}
deletar_exame(d, exame_id) ==
  IF ~Exists(d, "exame", exame_id) THEN Result(d, 404)
  ELSE Delete(d, "exame", exame_id)

\* POST /partos: the checks before the insert, 0 when all of them pass.
criar_parto_checks(d, parto) ==
  IF ~Exists(d, "gestante", parto.id_gestante) THEN 404
  ELSE IF SelectWhere(d, "parto", "id_gestante", parto.id_gestante) # {}
    THEN 400
  ELSE IF ~Exists(d, "profissionalsaude", parto.id_profissional) THEN 404
  ELSE 0

\* POST /partos
criar_parto(d, nid, parto) ==
  IF criar_parto_checks(d, parto) # 0
    THEN Result(d, criar_parto_checks(d, parto))
    ELSE Insert(d, "parto", IdOf(parto, nid), Row(parto), 201)

\* GET /partos/{parto_id}
buscar_parto(d, parto_id) ==
  IF ~Exists(d, "parto", parto_id) THEN Result(d, 404)
  ELSE Result(d, 200)

\* atualizar_parto without the lookup of the professional.
atualizar_parto_semProfissional(d, parto_id, dados) ==
  IF ~Exists(d, "parto", parto_id) THEN Result(d, 404)
  ELSE Update(d, "parto", parto_id, Merge(d.parto[parto_id], dados))

\* PATCH /partos/{parto_id}
atualizar_parto(d, parto_id, dados) ==
  IF ~Exists(d, "parto", parto_id) THEN Result(d, 404)
  ELSE LET id_profissional == Attr(dados, "id_profissional")
       IN IF /\ Truthy("id_profissional", id_profissional)
             /\ ~Exists(d, "profissionalsaude", id_profissional)
            THEN Result(d, 404)
            ELSE Update(d, "parto", parto_id, Merge(d.parto[parto_id], dados))

\* DELETE /partos/{parto_id}
deletar_parto(d, parto_id) ==
  IF ~Exists(d, "parto", parto_id) THEN Result(d, 404)
  ELSE Delete(d, "parto", parto_id)

----------------------------------------------------------------------------
\* Request bodies.

\* The identifiers a request names in table t: those the table has issued and
\* one it has not.
KnownIds(t) == {i \in Ids : i <= nextId[t]}

\* An identifier a client can put in a POST body: none, or the first one the
\* table issued.
BodyIds(t) == {NoId} \cup {i \in {1} : i < nextId[t]}

\* A Gestante body leaves both server-filled fields out or carries both.
GestanteBodies ==
  {[id |-> i, bi |-> b, nome |-> NomeCriado,
    data_registo |-> IF i = NoId THEN UNSET ELSE DataCaller] :
     i \in BodyIds("gestante"), b \in BIs}

ProfissionalBodies ==
  {[id |-> i, email |-> e, nome |-> NomeCriado] :
     i \in BodyIds("profissionalsaude"), e \in Emails}

ConsultaBodies ==
  {[id |-> i, id_gestante |-> g, id_profissional |-> p, observacoes |-> o] :
     i \in BodyIds("consultaprenatal"), g \in KnownIds("gestante"),
     p \in KnownIds("profissionalsaude"), o \in Textos}

ExameBodies ==
  {[id |-> i, id_gestante |-> g, resultado |-> o] :
     i \in BodyIds("exame"), g \in KnownIds("gestante"), o \in Textos}

PartoBodies ==
  {[id |-> i, id_gestante |-> g, id_profissional |-> p, complicacoes |-> o] :
     i \in BodyIds("parto"), g \in KnownIds("gestante"),
     p \in KnownIds("profissionalsaude"), o \in Textos}

GestanteUpdate == {[nome |-> n] : n \in {UNSET, NULL, NomeNovo}}

ProfissionalSaudeUpdate ==
  {[nome |-> n, email |-> e] :
     n \in {UNSET, NULL, NomeNovo}, e \in {UNSET, NULL} \cup Emails}

ConsultaPrenatalUpdate ==
  {[observacoes |-> o, id_profissional |-> p] :
     o \in {UNSET} \cup Textos, p \in {UnsetId, NoId} \cup KnownIds("profissionalsaude")}

ExameUpdate == {[resultado |-> o] : o \in {UNSET} \cup Textos}

PartoUpdate ==
  {[complicacoes |-> o, id_profissional |-> p] :
     o \in {UNSET} \cup Textos, p \in {UnsetId, NoId} \cup KnownIds("profissionalsaude")}

----------------------------------------------------------------------------
\* The service: one request at a time, each handled to completion.  req and
\* resp are the request being answered and its status code; between two
\* requests no session is open and req is Idle.

EmptyTable == [i \in {} |-> {}]

Idle == [op |-> "idle"]

\* The threads of the server's pool that handle requests at the same time.
Workers == {1, 2}

Inserted == nextId["gestante"] + nextId["profissionalsaude"]
            + nextId["consultaprenatal"] + nextId["exame"] + nextId["parto"]
            - 5

Init ==
  /\ db = [t \in Tables |-> EmptyTable]
  /\ nextId = [t \in Tables |-> 1]
  /\ req = Idle
  /\ resp = 0
  /\ pending = Idle
  /\ inflight = [w \in Workers |-> Idle]

\* A request r on table t answered with the handler's outcome out.
Serve(t, r, out) ==
  /\ req = Idle
  /\ out.status = 201 => Inserted < MaxRows
  /\ db' = out.db
  /\ nextId' = IF out.status = 201 THEN [nextId EXCEPT ![t] = @ + 1]
               ELSE nextId
  /\ req' = r
  /\ resp' = out.status
  /\ UNCHANGED <<pending, inflight>>

\* The session of the request is closed once the response is out.
get_session ==
  /\ req # Idle
  /\ req' = Idle
  /\ resp' = 0
  /\ UNCHANGED <<db, nextId, pending, inflight>>

Post(t, op, body, out) == Serve(t, [op |-> op, body |-> body], out)
Get(t, op, id, out) == Serve(t, [op |-> op, id |-> id], out)
Patch(t, op, id, dados, out) ==
  Serve(t, [op |-> op, id |-> id, dados |-> dados], out)
Del(t, op, id, out) == Serve(t, [op |-> op, id |-> id], out)

POST_gestantes ==
  \E b \in GestanteBodies :
     Post("gestante", "criar_gestante", b,
          criar_gestante(db, nextId["gestante"], b))
GET_gestante ==
  \E i \in KnownIds("gestante") :
     Get("gestante", "buscar_gestante", i, buscar_gestante(db, i))
PATCH_gestante ==
  \E i \in KnownIds("gestante"), u \in GestanteUpdate :
     Patch("gestante", "atualizar_gestante", i, u,
           atualizar_gestante(db, i, u))
DELETE_gestante ==
  \E i \in KnownIds("gestante") :
     Del("gestante", "deletar_gestante", i, deletar_gestante(db, i))

POST_profissionais ==
  \E b \in ProfissionalBodies :
     Post("profissionalsaude", "criar_profissional", b,
          criar_profissional(db, nextId["profissionalsaude"], b))
GET_profissional ==
  \E i \in KnownIds("profissionalsaude") :
     Get("profissionalsaude", "buscar_profissional", i,
         buscar_profissional(db, i))
PATCH_profissional ==
  \E i \in KnownIds("profissionalsaude"), u \in ProfissionalSaudeUpdate :
     Patch("profissionalsaude", "atualizar_profissional", i, u,
           atualizar_profissional(db, i, u))
DELETE_profissional ==
  \E i \in KnownIds("profissionalsaude") :
     Del("profissionalsaude", "deletar_profissional", i,
         deletar_profissional(db, i))

POST_consultas ==
  \E b \in ConsultaBodies :
     Post("consultaprenatal", "criar_consulta", b,
          criar_consulta(db, nextId["consultaprenatal"], b))
GET_consulta ==
  \E i \in KnownIds("consultaprenatal") :
     Get("consultaprenatal", "buscar_consulta", i, buscar_consulta(db, i))
PATCH_consulta ==
  \E i \in KnownIds("consultaprenatal"), u \in ConsultaPrenatalUpdate :
     Patch("consultaprenatal", "atualizar_consulta", i, u,
           atualizar_consulta(db, i, u))
DELETE_consulta ==
  \E i \in KnownIds("consultaprenatal") :
     Del("consultaprenatal", "deletar_consulta", i, deletar_consulta(db, i))

POST_exames ==
  \E b \in ExameBodies :
     Post("exame", "criar_exame", b, criar_exame(db, nextId["exame"], b))
GET_exame ==
  \E i \in KnownIds("exame") : Get("exame", "buscar_exame", i, buscar_exame(db, i))
PATCH_exame ==
  \E i \in KnownIds("exame"), u \in ExameUpdate :
     Patch("exame", "atualizar_exame", i, u, atualizar_exame(db, i, u))
DELETE_exame ==
  \E i \in KnownIds("exame") : Del("exame", "deletar_exame", i, deletar_exame(db, i))

POST_partos ==
  \E b \in PartoBodies :
     Post("parto", "criar_parto", b, criar_parto(db, nextId["parto"], b))
GET_parto ==
  \E i \in KnownIds("parto") : Get("parto", "buscar_parto", i, buscar_parto(db, i))
PATCH_parto ==
  \E i \in KnownIds("parto"), u \in PartoUpdate :
     Patch("parto", "atualizar_parto", i, u, atualizar_parto(db, i, u))
DELETE_parto ==
  \E i \in KnownIds("parto") : Del("parto", "deletar_parto", i, deletar_parto(db, i))

\* The GET routes under /consultas in the order their decorators run, a path
\* as the sequence of its segments.
GetRoutes ==
  << [path |-> <<"consultas">>, endpoint |-> "listar_consultas"],
     [path |-> <<"consultas", "{consulta_id}">>,
      endpoint |-> "buscar_consulta"],
     [path |-> <<"consultas", "profissional", "{profissional_id}">>,
      endpoint |-> "consultas_por_profissional"],
     [path |-> <<"consultas", "periodo">>,
      endpoint |-> "consultas_por_periodo"] >>

\* A path parameter matches any one segment.
IsParam(seg) == seg \in {"{consulta_id}", "{profissional_id}"}

Matches(pattern, path) ==
  /\ Len(pattern) = Len(path)
  /\ \A k \in 1..Len(pattern) : IsParam(pattern[k]) \/ pattern[k] = path[k]

\* The endpoint of the first route, in declaration order, that the path
\* matches.
Dispatch(routes, path) ==
  LET ks == {k \in DOMAIN routes : Matches(routes[k].path, path)}
  IN routes[CHOOSE k \in ks : \A j \in ks : k <= j].endpoint

\* consulta_id: uuid.UUID accepts the text of a uuid only.
IsUuid(seg) == \E i \in Ids : seg = ToString(i)

\* What the endpoint the router picked for a GET under /consultas ends with,
\* after the validation of its parameters (422 when one fails).
Routed(d, endpoint, path, data_inicio, data_fim) ==
  CASE endpoint = "consultas_por_periodo" ->
         consultas_por_periodo(d, data_inicio, data_fim)
    [] endpoint = "buscar_consulta" ->
         IF IsUuid(path[2])
           THEN buscar_consulta(d, CHOOSE i \in Ids : path[2] = ToString(i))
           ELSE Result(d, 422)
    [] OTHER -> Result(d, 200)

PeriodoPath == <<"consultas", "periodo">>

\* A GET under /consultas with a date range in its query string.
GetRange(path, data_inicio, data_fim) ==
  Serve("consultaprenatal",
        [op |-> Dispatch(GetRoutes, path), path |-> path,
         data_inicio |-> data_inicio, data_fim |-> data_fim],
        Routed(db, Dispatch(GetRoutes, path), path, data_inicio, data_fim))

\* GET /consultas/periodo?data_inicio=..&data_fim=..
GET_consultas_periodo ==
  \E data_inicio \in Datas, data_fim \in Datas :
     GetRange(PeriodoPath, data_inicio, data_fim)

Next ==
  \/ POST_gestantes \/ GET_gestante \/ PATCH_gestante \/ DELETE_gestante
  \/ POST_profissionais \/ GET_profissional \/ PATCH_profissional
  \/ DELETE_profissional
  \/ POST_consultas \/ GET_consulta \/ PATCH_consulta \/ DELETE_consulta
  \/ POST_exames \/ GET_exame \/ PATCH_exame \/ DELETE_exame
  \/ POST_partos \/ GET_parto \/ PATCH_parto \/ DELETE_parto
  \/ GET_consultas_periodo
  \/ get_session

Spec == Init /\ [][Next]_vars

\* The table each POST handler inserts into.
CreateTable ==
  [criar_gestante |-> "gestante",
   criar_profissional |-> "profissionalsaude",
   criar_consulta |-> "consultaprenatal",
   criar_exame |-> "exame",
   criar_parto |-> "parto"]

\* The table each DELETE handler removes from.
DeleteTable ==
  [deletar_gestante |-> "gestante",
   deletar_profissional |-> "profissionalsaude",
   deletar_consulta |-> "consultaprenatal",
   deletar_exame |-> "exame",
   deletar_parto |-> "parto"]

----------------------------------------------------------------------------
\* Two requests at once.  Handlers run in the server's thread pool, each with
\* its own session, and nothing is locked between a handler's queries and its
\* commit: one create-Parto request is followed through its two steps while
\* any other request is handled to completion in between.  pending is that
\* create-Parto request once its checks have passed.

\* Rows inserted or about to be.
Claimed ==
  Inserted + (IF pending = Idle THEN 0 ELSE 1)
    + Cardinality({w \in Workers : inflight[w].op \in DOMAIN CreateTable})

\* The checks of POST /partos pass.
begin_criar_parto ==
  \E b \in PartoBodies :
     /\ pending = Idle
     /\ Claimed < RaceRows
     /\ criar_parto_checks(db, b) = 0
     /\ pending' = [op |-> "criar_parto", body |-> b]
     /\ UNCHANGED <<db, nextId, req, resp, inflight>>

\* session.add(parto); session.commit() of the pending request.
commit_criar_parto ==
  /\ pending # Idle
  /\ LET out == Insert(db, "parto", IdOf(pending.body, nextId["parto"]),
                       Row(pending.body), 201)
     IN /\ db' = out.db
        /\ nextId' = IF out.status = 201
                       THEN [nextId EXCEPT !["parto"] = @ + 1] ELSE nextId
  /\ pending' = Idle
  /\ UNCHANGED <<req, resp, inflight>>

\* Another request on table t, handled to completion with outcome out.
Handled(t, out) ==
  /\ out.db # db
  /\ out.status = 201 => Claimed < RaceRows
  /\ db' = out.db
  /\ nextId' = IF out.status = 201 THEN [nextId EXCEPT ![t] = @ + 1]
               ELSE nextId
  /\ UNCHANGED <<req, resp, pending, inflight>>

other_request ==
  \/ \E b \in GestanteBodies :
        Handled("gestante", criar_gestante(db, nextId["gestante"], b))
  \/ \E i \in KnownIds("gestante"), u \in GestanteUpdate :
        Handled("gestante", atualizar_gestante(db, i, u))
  \/ \E i \in KnownIds("gestante") :
        Handled("gestante", deletar_gestante(db, i))
  \/ \E b \in ProfissionalBodies :
        Handled("profissionalsaude",
                criar_profissional(db, nextId["profissionalsaude"], b))
  \/ \E i \in KnownIds("profissionalsaude"), u \in ProfissionalSaudeUpdate :
        Handled("profissionalsaude", atualizar_profissional(db, i, u))
  \/ \E i \in KnownIds("profissionalsaude") :
        Handled("profissionalsaude", deletar_profissional(db, i))
  \/ \E b \in ConsultaBodies :
        Handled("consultaprenatal",
                criar_consulta(db, nextId["consultaprenatal"], b))
  \/ \E i \in KnownIds("consultaprenatal"), u \in ConsultaPrenatalUpdate :
        Handled("consultaprenatal", atualizar_consulta(db, i, u))
  \/ \E i \in KnownIds("consultaprenatal") :
        Handled("consultaprenatal", deletar_consulta(db, i))
  \/ \E b \in ExameBodies :
        Handled("exame", criar_exame(db, nextId["exame"], b))
  \/ \E i \in KnownIds("exame"), u \in ExameUpdate :
        Handled("exame", atualizar_exame(db, i, u))
  \/ \E i \in KnownIds("exame") : Handled("exame", deletar_exame(db, i))
  \/ \E b \in PartoBodies :
        Handled("parto", criar_parto(db, nextId["parto"], b))
  \/ \E i \in KnownIds("parto"), u \in PartoUpdate :
        Handled("parto", atualizar_parto(db, i, u))
  \/ \E i \in KnownIds("parto") : Handled("parto", deletar_parto(db, i))

NextRace == begin_criar_parto \/ commit_criar_parto \/ other_request

SpecRace == Init /\ [][NextRace]_vars

----------------------------------------------------------------------------
\* The thread pool.  Each worker takes a request through its handler in two
\* steps, the queries and checks first and the commit later, with its own
\* session; the other worker's steps come in between.  inflight[w] is the
\* request whose checks worker w has passed and whose commit is still to come.
\* The bodies of these requests leave the identifier and the timestamp to the
\* server.

\* The bodies that carry no identifier and no data_registo.
ServerFilled(bodies) ==
  {b \in bodies :
     b.id = NoId /\ ("data_registo" \in DOMAIN b => b.data_registo = UNSET)}

\* No HTTPException was raised before the commit.
Passes(out) == out.status \notin {400, 404}

\* Worker w has run the checks of request r, and out is what the handler
\* would end with on the store as it is now.
Begin(w, r, out) ==
  /\ inflight[w] = Idle
  /\ Passes(out)
  /\ r.op \in DOMAIN CreateTable => Claimed < RaceRows
  /\ inflight' = [inflight EXCEPT ![w] = r]
  /\ UNCHANGED <<db, nextId, req, resp, pending>>

begin_criar_gestante(w) ==
  \E b \in ServerFilled(GestanteBodies) :
     Begin(w, [op |-> "criar_gestante", body |-> b],
           criar_gestante(db, nextId["gestante"], b))

begin_criar_profissional(w) ==
  \E b \in ServerFilled(ProfissionalBodies) :
     Begin(w, [op |-> "criar_profissional", body |-> b],
           criar_profissional(db, nextId["profissionalsaude"], b))

begin_criar_consulta(w) ==
  \E b \in ServerFilled(ConsultaBodies) :
     Begin(w, [op |-> "criar_consulta", body |-> b],
           criar_consulta(db, nextId["consultaprenatal"], b))

begin_criar_exame(w) ==
  \E b \in ServerFilled(ExameBodies) :
     Begin(w, [op |-> "criar_exame", body |-> b],
           criar_exame(db, nextId["exame"], b))

begin_criar_parto_worker(w) ==
  \E b \in ServerFilled(PartoBodies) :
     Begin(w, [op |-> "criar_parto", body |-> b],
           criar_parto(db, nextId["parto"], b))

begin_deletar_gestante(w) ==
  \E i \in KnownIds("gestante") :
     Begin(w, [op |-> "deletar_gestante", id |-> i], deletar_gestante(db, i))

begin_deletar_profissional(w) ==
  \E i \in KnownIds("profissionalsaude") :
     Begin(w, [op |-> "deletar_profissional", id |-> i],
           deletar_profissional(db, i))

\* session.add(obj); session.commit() of worker w's create.
commit_criar(w) ==
  /\ inflight[w].op \in DOMAIN CreateTable
  /\ LET t == CreateTable[inflight[w].op]
         out == Insert(db, t, IdOf(inflight[w].body, nextId[t]),
                       Row(inflight[w].body), 201)
     IN /\ db' = out.db
        /\ nextId' = IF out.status = 201 THEN [nextId EXCEPT ![t] = @ + 1]
                     ELSE nextId
  /\ inflight' = [inflight EXCEPT ![w] = Idle]
  /\ UNCHANGED <<req, resp, pending>>

\* commit_deletar on an engine that enforces the declared foreign keys: the
\* delete of a row that a ConsultaPrenatal references fails.
commit_deletar_comFK(w) ==
  /\ inflight[w].op \in DOMAIN DeleteTable
  /\ LET t == DeleteTable[inflight[w].op]
         c == IF t = "gestante" THEN "id_gestante" ELSE "id_profissional"
     IN db' = IF /\ Exists(db, t, inflight[w].id)
                 /\ SelectWhere(db, "consultaprenatal", c, inflight[w].id) = {}
                THEN Delete(db, t, inflight[w].id).db ELSE db
  /\ inflight' = [inflight EXCEPT ![w] = Idle]
  /\ UNCHANGED <<nextId, req, resp, pending>>

\* session.delete(obj); session.commit() of worker w's delete: when the row
\* is gone by now the DELETE matches nothing and the commit fails.
commit_deletar(w) ==
  /\ inflight[w].op \in DOMAIN DeleteTable
  /\ LET t == DeleteTable[inflight[w].op]
     IN db' = IF Exists(db, t, inflight[w].id)
                THEN Delete(db, t, inflight[w].id).db ELSE db
  /\ inflight' = [inflight EXCEPT ![w] = Idle]
  /\ UNCHANGED <<nextId, req, resp, pending>>

NextPool ==
  \E w \in Workers :
        \/ begin_criar_gestante(w) \/ begin_criar_profissional(w)
        \/ begin_criar_consulta(w) \/ begin_criar_exame(w)
        \/ begin_criar_parto_worker(w)
        \/ begin_deletar_gestante(w) \/ begin_deletar_profissional(w)
        \/ commit_criar(w) \/ commit_deletar(w)

SpecPool == Init /\ [][NextPool]_vars


----------------------------------------------------------------------------
\* Vocabulary of the properties.  A handler step leaves Idle: db is the store
\* the request found, db' the store it left, req' the request, resp' its
\* status code.

\* The step answers a request to handler op.
Answers(op) == req'.op = op

\* Rows of table t whose column c holds v.
Holders(d, t, c, v) == {i \in DOMAIN d[t] : d[t][i][c] = v}

\* The stored rows that reference gestante g / profissional p.
RefsGestante(d, g) ==
  Holders(d, "consultaprenatal", "id_gestante", g) # {}
    \/ Holders(d, "exame", "id_gestante", g) # {}
    \/ Holders(d, "parto", "id_gestante", g) # {}

RefsProfissional(d, p) ==
  Holders(d, "consultaprenatal", "id_profissional", p) # {}
    \/ Holders(d, "parto", "id_profissional", p) # {}

----------------------------------------------------------------------------
\* C1: in every reachable state no two Gestante rows share a bi and no two
\* ProfissionalSaude rows share an email.
C1_UniqueBiAndEmail ==
  /\ \A i, j \in DOMAIN db.gestante :
        db.gestante[i].bi = db.gestante[j].bi => i = j
  /\ \A i, j \in DOMAIN db.profissionalsaude :
        db.profissionalsaude[i].email = db.profissionalsaude[j].email => i = j

\* A PATCH tried to give a second professional the (empty) email of another
\* one and the store refused the commit.
C1_Witness ==
  /\ req.op = "atualizar_profissional"
  /\ resp = 500
  /\ req.dados.email = ""
  /\ \E j \in DOMAIN db.profissionalsaude :
        j # req.id /\ db.profissionalsaude[j].email = ""

\* C2: every id_gestante of a ConsultaPrenatal, Exame or Parto names a stored
\* Gestante, and every id_profissional of a ConsultaPrenatal or Parto names a
\* stored ProfissionalSaude, in every reachable state.
C2_NoDanglingReference ==
  /\ \A t \in {"consultaprenatal", "exame", "parto"} :
        \A i \in DOMAIN db[t] : db[t][i].id_gestante \in DOMAIN db.gestante
  /\ \A t \in {"consultaprenatal", "parto"} :
        \A i \in DOMAIN db[t] :
           db[t][i].id_profissional \in DOMAIN db.profissionalsaude

\* The parent references of a POST body, and whether one of them names no
\* stored row.
MissingParent(d, r) ==
  \/ ~Exists(d, "gestante", r.body.id_gestante)
  \/ /\ r.op \in {"criar_consulta", "criar_parto"}
     /\ ~Exists(d, "profissionalsaude", r.body.id_profissional)

CreatesDependent == req'.op \in {"criar_consulta", "criar_exame", "criar_parto"}

\* C3, as claimed: a create of a ConsultaPrenatal, Exame or Parto with a
\* parent reference that names no stored row always ends 404 and stores
\* nothing.
C3_MissingParentAlways404 ==
  [][CreatesDependent /\ MissingParent(db, req')
       => resp' = 404 /\ db' = db]_vars

\* C3, amended: such a create stores nothing and ends 404, except that a
\* create-Parto for a stored Gestante that already has a Parto ends 400.
C3_MissingParentRejected ==
  [][CreatesDependent /\ MissingParent(db, req')
       => /\ db' = db
          /\ resp' = IF /\ req'.op = "criar_parto"
                        /\ Exists(db, "gestante", req'.body.id_gestante)
                        /\ Holders(db, "parto", "id_gestante",
                                   req'.body.id_gestante) # {}
                       THEN 400 ELSE 404]_vars

\* A create-Parto for a stored Gestante without a Parto, naming a
\* professional that is not stored, was answered 404.
C3_Witness ==
  /\ req.op = "criar_parto"
  /\ resp = 404
  /\ Exists(db, "gestante", req.body.id_gestante)
  /\ ~Exists(db, "profissionalsaude", req.body.id_profissional)

\* C4: the delete of a stored Gestante or ProfissionalSaude that a stored
\* ConsultaPrenatal, Exame or Parto references ends 400, and fetch-by-id
\* still returns the parent afterwards.
C4_ReferencedParentNotDeleted ==
  [][/\ Answers("deletar_gestante")
          /\ Exists(db, "gestante", req'.id) /\ RefsGestante(db, req'.id)
        => resp' = 400 /\ buscar_gestante(db', req'.id).status = 200
     /\ Answers("deletar_profissional")
          /\ Exists(db, "profissionalsaude", req'.id)
          /\ RefsProfissional(db, req'.id)
        => resp' = 400 /\ buscar_profissional(db', req'.id).status = 200]_vars

\* C5: a PATCH of a stored ProfissionalSaude whose body supplies an email
\* that another ProfissionalSaude holds ends 400 and changes nothing, the
\* empty string included.
C5_EmailOfAnotherConflicts ==
  [][/\ Answers("atualizar_profissional")
     /\ Exists(db, "profissionalsaude", req'.id)
     /\ req'.dados.email \in Emails
     /\ Holders(db, "profissionalsaude", "email", req'.dados.email)
          \ {req'.id} # {}
     => resp' = 400 /\ db' = db]_vars

\* A PATCH of a stored ProfissionalSaude supplies the email the row holds.
OwnEmail(d, r) ==
  /\ r.op = "atualizar_profissional"
  /\ Exists(d, "profissionalsaude", r.id)
  /\ r.dados.email = d.profissionalsaude[r.id].email

C7_SecondCreateConflicts ==
  [][/\ Answers("criar_gestante") /\ resp' = 201
          => /\ Cardinality(Holders(db', "gestante", "bi", req'.body.bi)) = 1
             /\ \A b \in {x \in [id : {NoId} \cup Ids, bi : BIs,
                                 nome : {NomeCriado},
                                 data_registo : {UNSET, DataCaller}] :
                            x.bi = req'.body.bi} :
                   criar_gestante(db', nextId'["gestante"], b)
                     = Result(db', 400)
     /\ Answers("criar_gestante") /\ req'.body.id = NoId
          /\ Holders(db, "gestante", "bi", req'.body.bi) = {}
          => resp' = 201
     /\ Answers("criar_profissional") /\ resp' = 201
          => /\ Cardinality(Holders(db', "profissionalsaude", "email",
                                    req'.body.email)) = 1
             /\ \A b \in {x \in [id : {NoId} \cup Ids, email : Emails,
                                 nome : {NomeCriado}] :
                            x.email = req'.body.email} :
                   criar_profissional(db', nextId'["profissionalsaude"], b)
                     = Result(db', 400)
     /\ Answers("criar_profissional") /\ req'.body.id = NoId
          /\ Holders(db, "profissionalsaude", "email", req'.body.email) = {}
          => resp' = 201]_vars

\* A create repeating the bi of a stored Gestante was answered 400.
C7_Witness ==
  /\ req.op = "criar_gestante"
  /\ resp = 400
  /\ Cardinality(Holders(db, "gestante", "bi", req.body.bi)) = 1

\* C8: in every reachable state, races of create-Parto requests included, at
\* most one Parto row references any given id_gestante.
C8_OnePartoPerGestante ==
  \A i, j \in DOMAIN db.parto :
     db.parto[i].id_gestante = db.parto[j].id_gestante => i = j

\* A create-Parto passed its checks, and before it commits another Parto of
\* the same gestante has been stored.
C8_Witness ==
  /\ pending # Idle
  /\ Holders(db, "parto", "id_gestante", pending.body.id_gestante) # {}

\* C9: while a Parto of gestante g is stored, a create-Parto with id_gestante
\* g ends 400 whatever its id_profissional, and the Parto table is unchanged.
C9_SecondPartoConflicts ==
  [][/\ Answers("criar_parto")
     /\ Holders(db, "parto", "id_gestante", req'.body.id_gestante) # {}
     => resp' = 400 /\ db' = db]_vars

\* C10: a request answered 404 or 400 leaves the store as it found it.
C10_ErrorLeavesStore ==
  [][req' # Idle /\ resp' \in {400, 404} => db' = db /\ nextId' = nextId]_vars

\* A PATCH of a stored ConsultaPrenatal that supplied new observacoes
\* together with an id_profissional naming no stored row was answered 404.
C10_Witness ==
  /\ req.op = "atualizar_consulta"
  /\ resp = 404
  /\ Exists(db, "consultaprenatal", req.id)
  /\ req.dados.observacoes \in Textos
  /\ req.dados.observacoes # db.consultaprenatal[req.id].observacoes

\* The table each PATCH handler updates.
PatchTable ==
  [atualizar_gestante |-> "gestante",
   atualizar_profissional |-> "profissionalsaude",
   atualizar_consulta |-> "consultaprenatal",
   atualizar_exame |-> "exame",
   atualizar_parto |-> "parto"]

\* The step answers a PATCH with 200.
PatchSucceeds == req'.op \in DOMAIN PatchTable /\ resp' = 200

\* C11: a PATCH answered 200 leaves the set of identifiers of its table as it
\* was; in the record it names every column the body supplied holds the
\* supplied value and every other column (data_registo among them) holds its
\* prior value; every other record of the store is unchanged; and a body that
\* supplies nothing leaves the whole store unchanged.
C11_PatchWritesOnlySupplied ==
  [][PatchSucceeds =>
       LET t == PatchTable[req'.op]
           i == req'.id
           dados == req'.dados
       IN /\ DOMAIN db'[t] = DOMAIN db[t]
          /\ i \in DOMAIN db[t]
          /\ DOMAIN db'[t][i] = DOMAIN db[t][i]
          /\ \A c \in DOMAIN db[t][i] :
                db'[t][i][c] = IF c \in DOMAIN dados /\ IsSet(c, dados[c])
                                 THEN dados[c] ELSE db[t][i][c]
          /\ \A u \in Tables : \A k \in DOMAIN db[u] :
                (u # t \/ k # i) => k \in DOMAIN db'[u] /\ db'[u][k] = db[u][k]
          /\ \A u \in Tables \ {t} : DOMAIN db'[u] = DOMAIN db[u]
          /\ (\A c \in DOMAIN dados : ~IsSet(c, dados[c])) => db' = db]_vars

\* A PATCH of a stored ConsultaPrenatal that holds observacoes supplied only
\* id_profissional and was answered 200.
C11_Witness ==
  /\ req.op = "atualizar_consulta"
  /\ resp = 200
  /\ req.dados.observacoes = UNSET
  /\ req.dados.id_profissional \in DOMAIN db.profissionalsaude
  /\ Exists(db, "consultaprenatal", req.id)
  /\ db.consultaprenatal[req.id].observacoes = "txt"


\* A stored row references row i of table t.
Referenced(d, t, i) ==
  CASE t = "gestante" -> RefsGestante(d, i)
    [] t = "profissionalsaude" -> RefsProfissional(d, i)
    [] OTHER -> FALSE

\* Fetch-by-id, every PATCH and the delete of identifier i of table t all end
\* 404 on store d.
Gone(d, t, i) ==
  CASE t = "gestante" ->
         /\ buscar_gestante(d, i).status = 404
         /\ \A u \in GestanteUpdate : atualizar_gestante(d, i, u).status = 404
         /\ deletar_gestante(d, i).status = 404
    [] t = "profissionalsaude" ->
         /\ buscar_profissional(d, i).status = 404
         /\ \A u \in ProfissionalSaudeUpdate :
               atualizar_profissional(d, i, u).status = 404
         /\ deletar_profissional(d, i).status = 404
    [] t = "consultaprenatal" ->
         /\ buscar_consulta(d, i).status = 404
         /\ \A u \in ConsultaPrenatalUpdate :
               atualizar_consulta(d, i, u).status = 404
         /\ deletar_consulta(d, i).status = 404
    [] t = "exame" ->
         /\ buscar_exame(d, i).status = 404
         /\ \A u \in ExameUpdate : atualizar_exame(d, i, u).status = 404
         /\ deletar_exame(d, i).status = 404
    [] t = "parto" ->
         /\ buscar_parto(d, i).status = 404
         /\ \A u \in PartoUpdate : atualizar_parto(d, i, u).status = 404
         /\ deletar_parto(d, i).status = 404

\* The identifiers table t has issued that are no longer stored.
Removed(d, n, t) == {i \in Ids : i < n[t]} \ DOMAIN d[t]

\* C12: the delete of a stored record that no stored record references ends
\* 200, removes that record and changes no other; and an identifier whose
\* record was removed answers 404 to fetch-by-id, PATCH and delete after
\* every later request.
C12_DeleteIsPermanent ==
  [][/\ (req'.op \in DOMAIN DeleteTable
           /\ Exists(db, DeleteTable[req'.op], req'.id)
           /\ ~Referenced(db, DeleteTable[req'.op], req'.id))
          => /\ resp' = 200
             /\ Gone(db', DeleteTable[req'.op], req'.id)
             /\ \A u \in Tables : \A k \in DOMAIN db[u] :
                   (u # DeleteTable[req'.op] \/ k # req'.id)
                     => k \in DOMAIN db'[u] /\ db'[u][k] = db[u][k]
     /\ \A t \in Tables : \A i \in Removed(db, nextId, t) :
           Gone(db', t, i)]_vars


\* C13: a create answered 201 stores its record under the freshly generated
\* identifier, a Gestante with the clock's reading as data_registo, whatever
\* identifier or timestamp the body carried; and no create fails on an
\* identifier that is already stored.
C13_CreateIgnoresIdAndTimestamp ==
  [][req'.op \in DOMAIN CreateTable =>
       LET t == CreateTable[req'.op]
       IN /\ resp' = 201 =>
               /\ DOMAIN db'[t] = DOMAIN db[t] \cup {nextId[t]}
               /\ nextId[t] \notin DOMAIN db[t]
               /\ t = "gestante" =>
                    db'[t][nextId[t]].data_registo = datetime_now
          /\ resp' # 500]_vars

\* The unique column each of these POST handlers queries before it inserts.
CheckedKey ==
  [criar_gestante |-> "bi", criar_profissional |-> "email",
   criar_parto |-> "id_gestante"]

\* The rows of store d that hold the unique key of create request r.
KeyHolders(d, r) ==
  Holders(d, CreateTable[r.op], CheckedKey[r.op], r.body[CheckedKey[r.op]])

\* Worker w commits on this step.
Commits(w) == inflight[w] # Idle /\ inflight'[w] = Idle

\* C14: with the check and the insert of every create as separate steps of
\* two workers, no store ever holds two Gestante rows with one bi, two
\* ProfissionalSaude rows with one email or two Parto rows with one
\* id_gestante; and the commit of a create whose key a row already holds
\* (the other worker's insert came first) leaves the store as it was.
C14_RacingCreatesKeepKeysUnique ==
  [][/\ \A op \in DOMAIN CheckedKey :
          \A i, j \in DOMAIN db'[CreateTable[op]] :
             db'[CreateTable[op]][i][CheckedKey[op]]
               = db'[CreateTable[op]][j][CheckedKey[op]] => i = j
     /\ \A w \in Workers :
          (Commits(w) /\ inflight[w].op \in DOMAIN CheckedKey
             /\ KeyHolders(db, inflight[w]) # {})
            => db' = db /\ nextId' = nextId]_vars

\* Both workers have passed the checks of a create-Parto for the same
\* gestante and neither has inserted.
C14_Witness ==
  /\ \A w \in Workers : inflight[w].op = "criar_parto"
  /\ inflight[1].body.id_gestante = inflight[2].body.id_gestante
  /\ KeyHolders(db, inflight[1]) = {}

\* The column of ConsultaPrenatal that references the table a DELETE handler
\* removes from.
ParentColumn ==
  [deletar_gestante |-> "id_gestante",
   deletar_profissional |-> "id_profissional"]

\* C15: when a worker has passed the checks of the delete of a Gestante or
\* ProfissionalSaude and a ConsultaPrenatal referencing that parent is stored
\* by the time it commits, the commit removes the parent and the
\* ConsultaPrenatal rows stay, referencing a parent that is gone.
C15_DeleteAfterCheckOrphansConsulta ==
  [][\A w \in Workers :
       (/\ Commits(w)
        /\ inflight[w].op \in DOMAIN ParentColumn
        /\ Exists(db, DeleteTable[inflight[w].op], inflight[w].id)
        /\ Holders(db, "consultaprenatal", ParentColumn[inflight[w].op],
                   inflight[w].id) # {})
       => /\ ~Exists(db', DeleteTable[inflight[w].op], inflight[w].id)
          /\ Holders(db', "consultaprenatal", ParentColumn[inflight[w].op],
                     inflight[w].id)
               = Holders(db, "consultaprenatal",
                         ParentColumn[inflight[w].op], inflight[w].id)]_vars

\* A stored ConsultaPrenatal references a Gestante and a ProfissionalSaude
\* that both were deleted around its insert.
C15_Witness ==
  \E i \in DOMAIN db.consultaprenatal :
     /\ ~Exists(db, "gestante", db.consultaprenatal[i].id_gestante)
     /\ ~Exists(db, "profissionalsaude", db.consultaprenatal[i].id_profissional)

\* C16: the delete of a stored Gestante ends 400 exactly when a
\* ConsultaPrenatal references it; otherwise it ends 200, the Gestante is
\* gone, and the Exame and Parto tables, the rows referencing it included,
\* are as they were.
C16_OnlyConsultaBlocksGestanteDelete ==
  [][Answers("deletar_gestante") /\ Exists(db, "gestante", req'.id)
       => /\ resp' = 400
               <=> Holders(db, "consultaprenatal", "id_gestante", req'.id) # {}
          /\ resp' = 400 => db' = db
          /\ resp' # 400
               => /\ resp' = 200
                  /\ ~Exists(db', "gestante", req'.id)
                  /\ db'.exame = db.exame
                  /\ db'.parto = db.parto]_vars

\* The delete of a Gestante that a Parto references was answered 200 and the
\* Parto is still stored.
C16_Witness ==
  /\ req.op = "deletar_gestante"
  /\ resp = 200
  /\ Holders(db, "parto", "id_gestante", req.id) # {}

\* C17: the delete of a stored ProfissionalSaude ends 400 exactly when a
\* ConsultaPrenatal or a Parto references it and otherwise ends 200 with the
\* record gone; and with requests handled one at a time every
\* id_profissional of a ConsultaPrenatal or Parto names a stored
\* ProfissionalSaude.
C17_ConsultaOrPartoBlocksProfissionalDelete ==
  [][/\ Answers("deletar_profissional")
          /\ Exists(db, "profissionalsaude", req'.id)
        => /\ resp' = 400
                <=> \/ Holders(db, "consultaprenatal", "id_profissional",
                               req'.id) # {}
                    \/ Holders(db, "parto", "id_profissional", req'.id) # {}
           /\ resp' = 400 => db' = db
           /\ resp' # 400
                => resp' = 200 /\ ~Exists(db', "profissionalsaude", req'.id)
     /\ \A t \in {"consultaprenatal", "parto"} : \A i \in DOMAIN db'[t] :
           Exists(db', "profissionalsaude", db'[t][i].id_profissional)]_vars

\* The delete of a ProfissionalSaude referenced by a Parto and by no
\* ConsultaPrenatal was answered 400.
C17_Witness ==
  /\ req.op = "deletar_profissional"
  /\ resp = 400
  /\ Holders(db, "parto", "id_profissional", req.id) # {}
  /\ Holders(db, "consultaprenatal", "id_profissional", req.id) = {}

\* The step answers a PATCH of a stored ConsultaPrenatal or Parto.
PatchesReferrer ==
  /\ req'.op \in {"atualizar_consulta", "atualizar_parto"}
  /\ Exists(db, PatchTable[req'.op], req'.id)

\* C18: a PATCH of a stored ConsultaPrenatal or Parto whose body supplies a
\* non-null id_profissional that names no stored ProfissionalSaude ends 404
\* and leaves the store, that record included, as it was; a PATCH whose body
\* omits id_profissional never ends 404 and keeps the stored id_profissional.
C18_PatchChecksSuppliedProfissional ==
  [][/\ PatchesReferrer
          /\ req'.dados.id_profissional \notin {UnsetId, NoId}
          /\ ~Exists(db, "profissionalsaude", req'.dados.id_profissional)
        => resp' = 404 /\ db' = db
     /\ PatchesReferrer /\ req'.dados.id_profissional = UnsetId
        => /\ resp' # 404
           /\ db'[PatchTable[req'.op]][req'.id].id_profissional
                = db[PatchTable[req'.op]][req'.id].id_profissional]_vars

\* A PATCH of a stored Parto that supplied new complicacoes together with an
\* id_profissional naming no stored row was answered 404.
C18_Witness ==
  /\ req.op = "atualizar_parto"
  /\ resp = 404
  /\ Exists(db, "parto", req.id)
  /\ req.dados.id_profissional \in Ids
  /\ req.dados.complicacoes \in Textos
  /\ req.dados.complicacoes # db.parto[req.id].complicacoes

\* The step answers a PATCH of a stored record.
PatchesStored ==
  req'.op \in DOMAIN PatchTable /\ Exists(db, PatchTable[req'.op], req'.id)

\* C19: in a PATCH of a stored record a column the body omits keeps its
\* stored value, and a column the body sets to null is in the mapping the
\* handler writes: the record a 200 returns holds null there, and a body
\* whose nulls are all on nullable columns (observacoes, resultado,
\* complicacoes) is answered 200 unless its id_profissional lookup fails.
C19_NullIsWrittenOmittedIsKept ==
  [][PatchesStored =>
       LET t == PatchTable[req'.op]
           i == req'.id
           dados == req'.dados
           nulls == {c \in DOMAIN dados : IsNull(c, dados[c])}
       IN /\ \A c \in DOMAIN dados :
                ~IsSet(c, dados[c]) => db'[t][i][c] = db[t][i][c]
          /\ resp' = 200 => \A c \in nulls : IsNull(c, db'[t][i][c])
          /\ nulls # {} /\ nulls \subseteq Nullable[t] /\ resp' # 404
               => resp' = 200]_vars

\* A PATCH of a stored ConsultaPrenatal that set observacoes to null and
\* omitted id_profissional was answered 200 and the record holds null.
C19_Witness ==
  /\ req.op = "atualizar_consulta"
  /\ resp = 200
  /\ req.dados.observacoes = NULL
  /\ req.dados.id_profissional = UnsetId
  /\ db.consultaprenatal[req.id].observacoes = NULL

\* C20: a GET /consultas/periodo request is handled by consultas_por_periodo,
\* never by the route of GET /consultas/{consulta_id}: it ends 400 when
\* data_inicio > data_fim and 200 otherwise.
C20_PeriodoReachesItsHandler ==
  [][("path" \in DOMAIN req' /\ req'.path = PeriodoPath)
       => /\ req'.op = "consultas_por_periodo"
          /\ resp' = IF req'.data_inicio > req'.data_fim THEN 400 ELSE 200]_vars

====
